---- MODULE Spec2Model ----
(***************************************************************************)
(* Model of the Mindcraft settings editor (src/settings_editor.py): the    *)
(* load / edit / save cycle of MindcraftSettingsEditor over a settings.js  *)
(* file and the SettingsWidget value conversions.                          *)
(*                                                                         *)
(* A text (file content, widget text, string value, key) is a sequence of  *)
(* lexemes.  A lexeme is either one punctuation or whitespace character or *)
(* a maximal run of word characters (an identifier or a numeral), so the   *)
(* regular expressions of the source are applied lexeme by lexeme.         *)
(***************************************************************************)
EXTENDS Integers, Sequences, FiniteSets, TLC

\* Largest numeral of the range of numerals the texts may hold.
MaxNum == 16

\* Number of widget edits explored in one run.
MaxEdits == 2

\* Number of saves explored in one run.
MaxSaves == 2

\* ------------------------------------------------------------------------
\* Lexemes and character classes

\* The characters matched by \s.
WS == {" ", "\n"}

\* Every lexeme that is a single non-word character.
Punct == WS \cup {"{", "}", "[", "]", ":", ",", ";", "\"", "'", "/", "*",
                  "-", "$", ".", "=", "\\", "!", "+"}

\* The lexeme standing for the single character U+00B2 (superscript two):
\* str.isdigit() is true of it, \w matches it, int() rejects it.
Sup2 == "^2"

\* The numbers whose decimal numerals occur in texts.
NumVals == (0 .. MaxNum) \cup {25565, 55916}

Numerals == {ToString(n) : n \in NumVals}

\* \w+ : a lexeme made of word characters.
IsWord(l) == l \notin Punct

\* str.isdigit() of a one-lexeme string.
IsDigitStr(l) == l \in Numerals \/ l = Sup2

\* [a-zA-Z_]\w* : a word lexeme that does not start with a digit.
IsIdent(l) == IsWord(l) /\ ~IsDigitStr(l)

\* [\w\-$] : the characters of a key in the fallback key pattern.
IsKeyLex(l) == IsWord(l) \/ l \in {"-", "$"}

\* str.lower() of a lexeme (every other lexeme of the model is lower case).
Lower(l) ==
  CASE l \in {"True", "TRUE"} -> "true"
    [] l \in {"False", "FALSE"} -> "false"
    [] l \in {"Null", "NULL"} -> "null"
    [] l \in {"Undefined", "UNDEFINED"} -> "undefined"
    [] l \in {"Export", "EXPORT"} -> "export"
    [] l \in {"Default", "DEFAULT"} -> "default"
    [] l \in {"Settings", "SETTINGS"} -> "settings"
    [] l = "NaN" -> "nan"
    [] l = "Infinity" -> "infinity"
    [] l = "None" -> "none"
    [] OTHER -> l

LowerText(t) == [i \in 1 .. Len(t) |-> Lower(t[i])]

\* Number of characters of a lexeme and of a text (len()).
CharLen(l) == IF l = Sup2 THEN 1 ELSE Len(l)

RECURSIVE TextLen(_)
TextLen(t) == IF t = <<>> THEN 0 ELSE CharLen(Head(t)) + TextLen(Tail(t))

\* ------------------------------------------------------------------------
\* String helpers

MinOf(S) == CHOOSE x \in S : \A y \in S : x <= y

MaxOf(S) == CHOOSE x \in S : \A y \in S : x >= y

\* t[n:] counted in lexemes.
Drop(t, n) == SubSeq(t, n + 1, Len(t))

\* Index of the first lexeme at or after i that is not whitespace
\* (Len(t) + 1 when there is none): the end of a greedy \s*.
SkipWS(t, i) ==
  LET S == {j \in i .. Len(t) : t[j] \notin WS}
  IN  IF S = {} THEN MaxOf({Len(t) + 1, i}) ELSE MinOf(S)

\* Index of the first lexeme at or after i that is in set C (0 when none).
FindLex(t, i, C) ==
  LET S == {j \in i .. Len(t) : t[j] \in C}
  IN  IF S = {} THEN 0 ELSE MinOf(S)

\* str.strip()
Strip(t) ==
  LET S == {j \in 1 .. Len(t) : t[j] \notin WS}
  IN  IF S = {} THEN <<>> ELSE SubSeq(t, MinOf(S), MaxOf(S))

\* p in t
Contains(t, p) ==
  \E i \in 1 .. (Len(t) - Len(p) + 1) : SubSeq(t, i, i + Len(p) - 1) = p

StartsWith(t, C) == t # <<>> /\ t[1] \in C

EndsWith(t, C) == t # <<>> /\ t[Len(t)] \in C

\* str.replace("'", '"')
ReplaceQuotes(t) == [i \in 1 .. Len(t) |-> IF t[i] = "'" THEN "\"" ELSE t[i]]

\* ------------------------------------------------------------------------
\* Values: what json.loads returns and what the fallback builds.
\* k is the Python type; b, n, t, l hold a bool, an int, the text of a str
\* (or the repr of a float) and the items of a list.

Val(k, b, n, t, l) == [k |-> k, b |-> b, n |-> n, t |-> t, l |-> l]

VNull == Val("null", FALSE, 0, <<>>, <<>>)

VBool(b) == Val("bool", b, 0, <<>>, <<>>)

VInt(n) == Val("int", FALSE, n, <<>>, <<>>)

VFloat(t) == Val("float", FALSE, 0, t, <<>>)

VStr(t) == Val("str", FALSE, 0, t, <<>>)

VList(l) == Val("list", FALSE, 0, <<>>, l)

\* str(n) of an int
IntToText(n) == IF n < 0 THEN <<"-", ToString(0 - n)>> ELSE <<ToString(n)>>

\* The number a numeral lexeme denotes.
NumOf(l) == CHOOSE n \in NumVals : ToString(n) = l

\* ------------------------------------------------------------------------
\* Ordered dictionaries (Python dict): a sequence of [key, val] entries in
\* insertion order, keys unique.

DictKeys(d) == {d[i].key : i \in 1 .. Len(d)}

DictKeySeq(d) == [i \in 1 .. Len(d) |-> d[i].key]

DictGet(d, k) == d[CHOOSE i \in 1 .. Len(d) : d[i].key = k].val

\* d[k] = v : an existing key keeps its position.
DictSet(d, k, v) ==
  IF k \in DictKeys(d)
  THEN [i \in 1 .. Len(d) |-> IF d[i].key = k THEN [key |-> k, val |-> v] ELSE d[i]]
  ELSE Append(d, [key |-> k, val |-> v])

\* ------------------------------------------------------------------------
\* json.dumps: default separators ", " and no indentation.

\* The escape of one character of a str.
EscapeLex(l) ==
  CASE l = "\"" -> <<"\\", "\"">>
    [] l = "\\" -> <<"\\", "\\">>
    [] l = "\n" -> <<"\\", "n">>
    [] OTHER -> <<l>>

RECURSIVE EscapeStr(_)
EscapeStr(t) ==
  IF t = <<>> THEN <<>> ELSE EscapeLex(Head(t)) \o EscapeStr(Tail(t))

RECURSIVE JsonDumps(_)
RECURSIVE JsonDumpsItems(_)
JsonDumpsItems(l) ==
  IF l = <<>> THEN <<>>
  ELSE IF Len(l) = 1 THEN JsonDumps(l[1])
  ELSE JsonDumps(l[1]) \o <<",", " ">> \o JsonDumpsItems(Tail(l))

JsonDumps(v) ==
  CASE v.k = "bool" -> IF v.b THEN <<"true">> ELSE <<"false">>
    [] v.k = "null" -> <<"null">>
    [] v.k = "int" -> IntToText(v.n)
    [] v.k = "float" -> v.t
    [] v.k = "str" -> <<"\"">> \o EscapeStr(v.t) \o <<"\"">>
    [] v.k = "list" -> <<"[">> \o JsonDumpsItems(v.l) \o <<"]">>

\* str(value) of a value that is neither bool, int, str nor list
\* (SettingsWidget's "unknown type" branch): None and floats.
PyStr(v) ==
  CASE v.k = "null" -> <<"None">>
    [] v.k = "float" -> IF v.t = <<"NaN">> THEN <<"nan">>
                        ELSE IF v.t = <<"Infinity">> THEN <<"inf">> ELSE v.t
    [] v.k = "int" -> IntToText(v.n)
    [] v.k = "bool" -> IF v.b THEN <<"True">> ELSE <<"False">>
    [] v.k = "str" -> v.t
    [] v.k = "list" -> JsonDumps(v)

\* ------------------------------------------------------------------------
\* json.loads: a parse result is [ok, val, pos], pos the index after the
\* value.  A failed parse is json.JSONDecodeError.  Objects are parsed at the
\* top level only (ParseObject); an object nested in a value is outside the
\* texts of the model and is rejected.

ParseFail == [ok |-> FALSE, val |-> VNull, pos |-> 0]

ParseOk(v, p) == [ok |-> TRUE, val |-> v, pos |-> p]

\* The body of a string, from the lexeme after the opening quote.
RECURSIVE ParseStringBody(_, _, _)
ParseStringBody(t, i, acc) ==
  IF i > Len(t) THEN ParseFail
  ELSE IF t[i] = "\"" THEN ParseOk(VStr(acc), i + 1)
  ELSE IF t[i] = "\n" THEN ParseFail
  ELSE IF t[i] = "\\"
       THEN IF i + 1 > Len(t) THEN ParseFail
            ELSE IF t[i + 1] \in {"\"", "\\", "/"}
                 THEN ParseStringBody(t, i + 2, Append(acc, t[i + 1]))
            ELSE IF t[i + 1] = "n"
                 THEN ParseStringBody(t, i + 2, Append(acc, "\n"))
            ELSE ParseFail
  ELSE ParseStringBody(t, i + 1, Append(acc, t[i]))

\* A number whose first digit is at i; neg: a minus sign came before.
ParseNumber(t, i, neg) ==
  IF i > Len(t) \/ t[i] \notin Numerals THEN ParseFail
  ELSE IF i + 2 <= Len(t) /\ t[i + 1] = "." /\ t[i + 2] \in Numerals
       THEN ParseOk(VFloat((IF neg THEN <<"-">> ELSE <<>>) \o SubSeq(t, i, i + 2)), i + 3)
  ELSE ParseOk(VInt(IF neg THEN 0 - NumOf(t[i]) ELSE NumOf(t[i])), i + 1)

RECURSIVE ParseValue(_, _)
RECURSIVE ParseArrayItems(_, _, _)

\* The items of an array, from the first lexeme of an item.
ParseArrayItems(t, i, acc) ==
  LET r == ParseValue(t, i)
      j == SkipWS(t, r.pos)
  IN  IF ~r.ok \/ j > Len(t) THEN ParseFail
      ELSE IF t[j] = "]" THEN ParseOk(VList(Append(acc, r.val)), j + 1)
      ELSE IF t[j] = ","
           THEN ParseArrayItems(t, SkipWS(t, j + 1), Append(acc, r.val))
      ELSE ParseFail

\* The value that starts at i (no leading whitespace).
ParseValue(t, i) ==
  IF i > Len(t) THEN ParseFail
  ELSE CASE t[i] = "\"" -> ParseStringBody(t, i + 1, <<>>)
         [] t[i] = "[" ->
              LET j == SkipWS(t, i + 1)
              IN  IF j <= Len(t) /\ t[j] = "]" THEN ParseOk(VList(<<>>), j + 1)
                  ELSE ParseArrayItems(t, j, <<>>)
         [] t[i] = "true" -> ParseOk(VBool(TRUE), i + 1)
         [] t[i] = "false" -> ParseOk(VBool(FALSE), i + 1)
         [] t[i] = "null" -> ParseOk(VNull, i + 1)
         [] t[i] \in {"NaN", "Infinity"} -> ParseOk(VFloat(<<t[i]>>), i + 1)
         [] t[i] = "-" -> ParseNumber(t, i + 1, TRUE)
         [] OTHER -> ParseNumber(t, i, FALSE)

\* json.loads(t) of any text.
JsonLoads(t) ==
  LET r == ParseValue(t, SkipWS(t, 1))
  IN  IF r.ok /\ SkipWS(t, r.pos) > Len(t) THEN r ELSE ParseFail

\* The members of an object, from the opening quote of a key; the result's
\* val is the dictionary.
RECURSIVE ParseMembers(_, _, _)
ParseMembers(t, i, d) ==
  IF i > Len(t) \/ t[i] # "\"" THEN [ok |-> FALSE, val |-> <<>>, pos |-> 0]
  ELSE LET k == ParseStringBody(t, i + 1, <<>>)
           c == SkipWS(t, k.pos)
           v == ParseValue(t, SkipWS(t, c + 1))
           j == SkipWS(t, v.pos)
       IN  IF ~k.ok \/ c > Len(t) \/ t[c] # ":" THEN [ok |-> FALSE, val |-> <<>>, pos |-> 0]
           ELSE IF ~v.ok \/ j > Len(t) THEN [ok |-> FALSE, val |-> <<>>, pos |-> 0]
           ELSE IF t[j] = "}"
                THEN [ok |-> TRUE, val |-> DictSet(d, k.val.t, v.val), pos |-> j + 1]
           ELSE IF t[j] = ","
                THEN ParseMembers(t, SkipWS(t, j + 1), DictSet(d, k.val.t, v.val))
           ELSE [ok |-> FALSE, val |-> <<>>, pos |-> 0]

\* json.loads(t) of a text that starts with "{": [ok, val] with val the
\* dictionary in the order of the text.
JsonLoadsObject(t) ==
  LET j == SkipWS(t, 2)
      r == IF j <= Len(t) /\ t[j] = "}"
           THEN [ok |-> TRUE, val |-> <<>>, pos |-> j + 1]
           ELSE ParseMembers(t, j, <<>>)
  IN  IF t # <<>> /\ t[1] = "{" /\ r.ok /\ SkipWS(t, r.pos) > Len(t)
      THEN [ok |-> TRUE, val |-> r.val]
      ELSE [ok |-> FALSE, val |-> <<>>]

\* ------------------------------------------------------------------------
\* load_settings_file: locating the settings block and the suffix

\* re.search(r'const\s+settings\s*=\s*(\{[\s\S]*?\n?\})[\s;]*', content):
\* whether a match that starts at lexeme i exists, and its parts.  start is
\* the index of "const", open and close are the braces of group 1 (the lazy body stops at the first "}"),
\* end is the index after the trailing [\s;]*.
SettingsMatchAt(t, i) ==
  LET s == SkipWS(t, i + 1)
      e == SkipWS(t, s + 1)
      b == SkipWS(t, e + 1)
      c == FindLex(t, b + 1, {"}"})
      S == {j \in (c + 1) .. Len(t) : t[j] \notin (WS \cup {";"})}
  IN  IF /\ t[i] = "const"
         /\ i + 1 <= Len(t) /\ t[i + 1] \in WS
         /\ s <= Len(t) /\ t[s] = "settings"
         /\ e <= Len(t) /\ t[e] = "="
         /\ b <= Len(t) /\ t[b] = "{"
         /\ c # 0
      THEN [found |-> TRUE, start |-> i, open |-> b, close |-> c,
            end |-> IF S = {} THEN Len(t) + 1 ELSE MinOf(S)]
      ELSE [found |-> FALSE, start |-> 0, open |-> 0, close |-> 0, end |-> 0]

\* The leftmost match.
SettingsMatch(t) ==
  LET S == {i \in 1 .. Len(t) : SettingsMatchAt(t, i).found}
  IN  IF S = {} THEN [found |-> FALSE, start |-> 0, open |-> 0, close |-> 0, end |-> 0]
      ELSE SettingsMatchAt(t, MinOf(S))

ExportPhrase == <<"export", " ", "default", " ", "settings">>

ExportLine == <<"\n", "export", " ", "default", " ", "settings", ";">>

\* A faulty variant of FileSuffix: the tail is kept as it is.
FileSuffixVerbatim(tail) == tail

\* A faulty variant of FileSuffix: the export line is appended whatever the
\* tail holds.
FileSuffixAlwaysExport(tail) == Strip(tail) \o ExportLine

\* self.file_suffix as computed from content[end_of_settings_block:].
FileSuffix(tail) ==
  LET s == Strip(tail)
      in_s == Contains(LowerText(s), ExportPhrase)
      in_tail == Contains(LowerText(tail), ExportPhrase)
  IN  IF ~in_s /\ ~in_tail
      THEN (IF s # <<>> /\ ~EndsWith(s, {"\n"}) THEN <<"\n">> ELSE <<>>)
           \o s \o ExportLine
      ELSE IF ~in_s /\ in_tail
      THEN (IF Strip(s) = <<>> THEN ExportLine ELSE s)
      ELSE s

\* ------------------------------------------------------------------------
\* load_settings_file: the normalizer of the strict decode

\* re.sub(r"//.*", "", t)
RECURSIVE StripLineComments(_)
StripLineComments(t) ==
  IF t = <<>> THEN <<>>
  ELSE IF Len(t) >= 2 /\ t[1] = "/" /\ t[2] = "/"
       THEN LET n == FindLex(t, 3, {"\n"})
            IN  IF n = 0 THEN <<>> ELSE StripLineComments(Drop(t, n - 1))
  ELSE <<Head(t)>> \o StripLineComments(Tail(t))

\* re.sub(r"/\*[\s\S]*?\*/", "", t)
RECURSIVE StripBlockComments(_)
StripBlockComments(t) ==
  IF t = <<>> THEN <<>>
  ELSE LET S == {j \in 3 .. (Len(t) - 1) : t[j] = "*" /\ t[j + 1] = "/"}
       IN  IF Len(t) >= 2 /\ t[1] = "/" /\ t[2] = "*" /\ S # {}
           THEN StripBlockComments(Drop(t, MinOf(S) + 1))
           ELSE <<Head(t)>> \o StripBlockComments(Tail(t))

\* The three re.sub of the bare tokens undefined, NaN and Infinity.
SpecialToken(l) ==
  CASE l = "undefined" -> <<"null">>
    [] l = "NaN" -> <<"\"", "NaN", "\"">>
    [] l = "Infinity" -> <<"\"", "Infinity", "\"">>
    [] OTHER -> <<l>>

RECURSIVE ReplaceSpecialTokens(_)
ReplaceSpecialTokens(t) ==
  IF t = <<>> THEN <<>>
  ELSE SpecialToken(Head(t)) \o ReplaceSpecialTokens(Tail(t))

\* re.sub(r'([C]\s*)([a-zA-Z_]\w*)\s*:', r'\1"\2":', t) for the characters
\* C: {"{", ","} in the first substitution, {"{"} in the second.
RECURSIVE QuoteKeys(_, _)
QuoteKeys(t, C) ==
  IF t = <<>> THEN <<>>
  ELSE LET j == SkipWS(t, 2)
           c == SkipWS(t, j + 1)
       IN  IF /\ t[1] \in C
              /\ j <= Len(t) /\ IsIdent(t[j])
              /\ c <= Len(t) /\ t[c] = ":"
           THEN SubSeq(t, 1, j - 1) \o <<"\"", t[j], "\"", ":">>
                \o QuoteKeys(Drop(t, c), C)
           ELSE <<Head(t)>> \o QuoteKeys(Tail(t), C)

\* re.sub(r',(\s*[}\]])', r'\1', t)
RECURSIVE RemoveTrailingCommas(_)
RemoveTrailingCommas(t) ==
  IF t = <<>> THEN <<>>
  ELSE LET j == SkipWS(t, 2)
       IN  IF t[1] = "," /\ j <= Len(t) /\ t[j] \in {"}", "]"}
           THEN SubSeq(t, 2, j) \o RemoveTrailingCommas(Drop(t, j))
           ELSE <<Head(t)>> \o RemoveTrailingCommas(Tail(t))

\* processed_str: the text handed to json.loads.
Normalize(t) ==
  RemoveTrailingCommas(
    ReplaceQuotes(
      QuoteKeys(
        QuoteKeys(
          ReplaceSpecialTokens(StripBlockComments(StripLineComments(t))),
          {"{", ","}),
        {"{"})))

\* ------------------------------------------------------------------------
\* load_settings_file: mining the commented-out profiles

\* re.search(r'("profiles"\s*:\s*\[)([^\]]*)(\])', content): group 2 of the
\* leftmost match, as [found, body].
ProfilesArrayAt(t, i) ==
  LET c == SkipWS(t, i + 3)
      b == SkipWS(t, c + 1)
      e == FindLex(t, b + 1, {"]"})
  IN  IF /\ i + 2 <= Len(t)
         /\ t[i] = "\"" /\ t[i + 1] = "profiles" /\ t[i + 2] = "\""
         /\ c <= Len(t) /\ t[c] = ":"
         /\ b <= Len(t) /\ t[b] = "["
         /\ e # 0
      THEN [found |-> TRUE, body |-> SubSeq(t, b + 1, e - 1)]
      ELSE [found |-> FALSE, body |-> <<>>]

ProfilesArrayMatch(t) ==
  LET S == {i \in 1 .. Len(t) : ProfilesArrayAt(t, i).found}
  IN  IF S = {} THEN [found |-> FALSE, body |-> <<>>]
      ELSE ProfilesArrayAt(t, MinOf(S))

\* One match of r'//\s*["\']([^"\']+)["\']' that starts at lexeme i:
\* [ok, name, end], end the index after the closing quote.
CommentedNameAt(g, i) ==
  LET q == SkipWS(g, i + 2)
      r == FindLex(g, q + 1, {"\"", "'"})
  IN  IF /\ i + 1 <= Len(g) /\ g[i] = "/" /\ g[i + 1] = "/"
         /\ q <= Len(g) /\ g[q] \in {"\"", "'"}
         /\ r >= q + 2
      THEN [ok |-> TRUE, name |-> SubSeq(g, q + 1, r - 1), end |-> r + 1]
      ELSE [ok |-> FALSE, name |-> <<>>, end |-> 0]

\* re.findall of that pattern from lexeme p on.
RECURSIVE CommentedNames(_, _)
CommentedNames(g, p) ==
  LET Cons(m) == <<m.name>> \o CommentedNames(g, m.end)
      From(S) == IF S = {} THEN <<>> ELSE Cons(CommentedNameAt(g, MinOf(S)))
  IN  From({i \in p .. Len(g) : CommentedNameAt(g, i).ok})

\* str.replace of the two-character string <<a, b>> by <<r>>.
RECURSIVE ReplacePair(_, _, _, _)
ReplacePair(t, a, b, r) ==
  IF Len(t) < 2 THEN t
  ELSE IF t[1] = a /\ t[2] = b THEN <<r>> \o ReplacePair(Drop(t, 2), a, b, r)
  ELSE <<Head(t)>> \o ReplacePair(Tail(t), a, b, r)

\* cp.replace("\\\\", "\\").replace("\\/", "/")
NormalizeCommentedProfile(cp) ==
  ReplacePair(ReplacePair(cp, "\\", "\\", "\\"), "\\", "/", "/")

\* Appending each normalized name that is not in the cache yet.
RECURSIVE AppendUnique(_, _)
AppendUnique(acc, names) ==
  IF names = <<>> THEN acc
  ELSE LET n == NormalizeCommentedProfile(Head(names))
       IN  AppendUnique(IF \E i \in 1 .. Len(acc) : acc[i] = n
                        THEN acc ELSE Append(acc, n),
                        Tail(names))

\* A faulty variant of MineCommentedProfiles: the comments are mined only
\* when the settings block decodes strictly.
MineWhenStrict(content) ==
  LET Mine(m, sm) ==
        IF /\ m.found
           /\ sm.found
           /\ JsonLoadsObject(Normalize(SubSeq(content, sm.open, sm.close))).ok
        THEN AppendUnique(<<>>, CommentedNames(m.body, 1))
        ELSE <<>>
  IN  Mine(ProfilesArrayMatch(content), SettingsMatch(content))

\* SETTINGS_PROFILES_FROM_COMMENTS_CACHE after the load of content.
MineCommentedProfiles(content) ==
  LET Mine(m) ==
        IF m.found THEN AppendUnique(<<>>, CommentedNames(m.body, 1)) ELSE <<>>
  IN  Mine(ProfilesArrayMatch(content))

\* ------------------------------------------------------------------------
\* load_settings_file: the fallback parser

\* The end of the maximal run of key characters that starts at k.
KeyRunEnd(t, k) ==
  LET S == {j \in k .. Len(t) : ~IsKeyLex(t[j])}
  IN  IF S = {} THEN Len(t) + 1 ELSE MinOf(S)

\* The key part of key_pattern_orig with its first character at k:
\* (?:"([\w\-$]+)"|'([\w\-$]+)'|([\w\-$]+))\s*:
KeyAt(t, k) ==
  LET quoted == k <= Len(t) /\ t[k] \in {"\"", "'"}
      first == IF quoted THEN k + 1 ELSE k
      r == KeyRunEnd(t, first)
      after == IF quoted THEN r + 1 ELSE r
      c == SkipWS(t, after)
  IN  IF /\ k <= Len(t)
         /\ r > first
         /\ quoted => (r <= Len(t) /\ t[r] = t[k])
         /\ c <= Len(t) /\ t[c] = ":"
      THEN [ok |-> TRUE, key |-> SubSeq(t, first, r - 1), end |-> c + 1]
      ELSE [ok |-> FALSE, key |-> <<>>, end |-> 0]

\* A match of key_pattern_orig whose first character is lexeme i: the
\* separator (?:^|\s|,) then the key.  [ok, key, start, end].
KeyMatchAt(t, i) ==
  LET NoKey == [ok |-> FALSE, key |-> <<>>, end |-> 0]
      Pick(atStart, afterSep) == IF atStart.ok THEN atStart ELSE afterSep
      At(m) == [ok |-> m.ok, key |-> m.key, start |-> i, end |-> m.end]
  IN  At(Pick(IF i = 1 THEN KeyAt(t, 1) ELSE NoKey,
              IF t[i] \in (WS \cup {","}) THEN KeyAt(t, i + 1) ELSE NoKey))

\* list(re.finditer(key_pattern_orig, t)) from lexeme p on.
RECURSIVE KeyMatches(_, _)
KeyMatches(t, p) ==
  LET Cons(m) == <<m>> \o KeyMatches(t, m.end)
      From(S) == IF S = {} THEN <<>> ELSE Cons(KeyMatchAt(t, MinOf(S)))
  IN  From({i \in p .. Len(t) : KeyMatchAt(t, i).ok})

\* t[n:] counted in characters.  A cut inside a lexeme leaves that (word)
\* lexeme in place: only the first character after a strip is looked at.
RECURSIVE CharDrop(_, _)
CharDrop(t, n) ==
  IF n <= 0 \/ t = <<>> THEN t
  ELSE IF CharLen(Head(t)) <= n THEN CharDrop(Tail(t), n - CharLen(Head(t)))
  ELSE t

\* value_str_raw of the value span [from, to) of text fb.
ValueStrRaw(fb, from, to) ==
  LET raw0 == Strip(SubSeq(fb, from, to - 1))
      raw1 == IF EndsWith(raw0, {",", ";"})
              THEN Strip(SubSeq(raw0, 1, Len(raw0) - 1)) ELSE raw0
      temp == Strip(SubSeq(raw1, 1, Len(raw1) - 1))
      rest == CharDrop(fb, TextLen(SubSeq(fb, 1, from - 1)) + TextLen(temp) + 1)
  IN  IF EndsWith(raw1, {","}) /\ StartsWith(Strip(rest), {"}"})
      THEN temp ELSE raw1

\* str.isdigit()
IsDigitText(t) == t # <<>> /\ \A i \in 1 .. Len(t) : IsDigitStr(t[i])

\* Whether int(t) raises ValueError for a text the digit test accepted.
IntRaises(t) == \E i \in 1 .. Len(t) : t[i] = Sup2

\* The classification of value_str_raw: [raised, val].
FallbackValue(raw) ==
  LET neg == StartsWith(raw, {"-"}) /\ IsDigitText(Tail(raw))
      Classify(low, dec) ==
        IF low = <<"true">> THEN [raised |-> FALSE, val |-> VBool(TRUE)]
        ELSE IF low = <<"false">> THEN [raised |-> FALSE, val |-> VBool(FALSE)]
        ELSE IF low = <<"null">> \/ low = <<"undefined">>
             THEN [raised |-> FALSE, val |-> VNull]
        ELSE IF \/ StartsWith(raw, {"\""}) /\ EndsWith(raw, {"\""})
                \/ StartsWith(raw, {"'"}) /\ EndsWith(raw, {"'"})
             THEN [raised |-> FALSE,
                   val |-> IF dec.ok THEN dec.val
                           ELSE VStr(SubSeq(raw, 2, Len(raw) - 1))]
        ELSE IF StartsWith(raw, {"["}) /\ EndsWith(raw, {"]"})
             THEN [raised |-> FALSE,
                   val |-> IF dec.ok THEN dec.val ELSE VList(<<>>)]
        ELSE IF IsDigitText(raw) \/ neg
             THEN IF IntRaises(raw)
                  THEN [raised |-> TRUE, val |-> VNull]
                  ELSE [raised |-> FALSE,
                        val |-> VInt(IF neg THEN 0 - NumOf(raw[2])
                                     ELSE NumOf(raw[1]))]
        ELSE [raised |-> FALSE, val |-> VStr(raw)]
  IN  Classify(LowerText(raw), JsonLoads(ReplaceQuotes(raw)))

\* The loop over the key matches from match i on: [raised, d].
RECURSIVE FallbackLoop(_, _, _, _)
FallbackLoop(fb, ms, i, d) ==
  IF i > Len(ms) THEN [raised |-> FALSE, d |-> d]
  ELSE LET to == IF i + 1 <= Len(ms) THEN ms[i + 1].start ELSE Len(fb) + 1
           Store(v) ==
             IF v.raised THEN [raised |-> TRUE, d |-> d]
             ELSE FallbackLoop(fb, ms, i + 1, DictSet(d, ms[i].key, v.val))
       IN  Store(FallbackValue(ValueStrRaw(fb, ms[i].end, to)))

\* The except json.JSONDecodeError branch on settings_str_original.
FallbackParse(orig) ==
  LET Loop(fb) == FallbackLoop(fb, KeyMatches(fb, 1), 1, <<>>)
  IN  Loop(StripBlockComments(StripLineComments(orig)))

\* ------------------------------------------------------------------------
\* load_settings_file: the outcome of reading one content

\* What the try block computes from content:
\*   block    - settings_match is not None
\*   strict   - json.loads of the normalized block succeeded
\*   raised   - an exception other than json.JSONDecodeError escaped
\*   settings - self.settings when nothing was raised
\*   suffix   - self.file_suffix (assigned before the decode)
DecodeBlock(orig) ==
  LET Pick(strict, fb) ==
        IF strict.ok
        THEN [strict |-> TRUE, raised |-> FALSE, settings |-> strict.val]
        ELSE [strict |-> FALSE, raised |-> fb.raised,
              settings |-> IF fb.raised THEN <<>> ELSE fb.d]
  IN  Pick(JsonLoadsObject(Normalize(orig)), FallbackParse(orig))

ReadSettings(content) ==
  LET Decoded(m, dec) ==
        [block |-> TRUE, strict |-> dec.strict, raised |-> dec.raised,
         settings |-> dec.settings,
         suffix |-> FileSuffix(Drop(content, m.end - 1))]
      Located(m) ==
        IF m.found
        THEN Decoded(m, DecodeBlock(SubSeq(content, m.open, m.close)))
        ELSE [block |-> FALSE, strict |-> FALSE, raised |-> FALSE,
              settings |-> <<>>, suffix |-> <<>>]
  IN  Located(SettingsMatch(content))

\* ------------------------------------------------------------------------
\* SettingsWidget

AuthOptions == <<"offline", "microsoft">>

LanguageOptions == <<"en", "fr", "es", "de", "it", "pt", "ru", "zh", "ja", "ko">>

InSeq(x, q) == \E i \in 1 .. Len(q) : q[i] = x

\* A widget: kind is the Qt widget (profiles, strlist, check, line, combo),
\* otype is original_value_type, checked / text / items are what the widget
\* shows, avail is available_profiles_from_comments.
Widget(kind, otype, checked, text, items, avail) ==
  [kind |-> kind, otype |-> otype, checked |-> checked, text |-> text,
   items |-> items, avail |-> avail]

\* SettingsWidget.__init__(key, value, ...) with the comment cache.
MakeWidget(key, value, cache) ==
  IF key = <<"profiles">> /\ value.k = "list"
  THEN Widget("profiles", "list", FALSE, <<>>, value.l, cache)
  ELSE IF key = <<"only_chat_with">> /\ value.k = "list"
  THEN Widget("strlist", "list", FALSE, <<>>, value.l, <<>>)
  ELSE IF value.k = "bool"
  THEN Widget("check", "bool", value.b, <<>>, <<>>, <<>>)
  ELSE IF value.k = "list"
  THEN Widget("line", "list", FALSE, JsonDumps(value), <<>>, <<>>)
  ELSE IF value.k = "int"
  THEN Widget("line", "int", FALSE, IntToText(value.n), <<>>, <<>>)
  ELSE IF value.k = "str"
  THEN IF key = <<"auth">>
       THEN Widget("combo", "str", FALSE,
                   IF Len(value.t) = 1 /\ InSeq(value.t[1], AuthOptions)
                   THEN value.t ELSE <<AuthOptions[1]>>,
                   <<>>, <<>>)
       ELSE IF key = <<"language">>
       THEN Widget("combo", "str", FALSE,
                   IF Len(value.t) = 1 /\ InSeq(value.t[1], LanguageOptions)
                   THEN value.t ELSE <<LanguageOptions[1]>>,
                   <<>>, <<>>)
       ELSE Widget("line", "str", FALSE, value.t, <<>>, <<>>)
  ELSE Widget("line", value.k, FALSE, PyStr(value), <<>>, <<>>)

\* int(text): [ok, n]; not ok is ValueError.
ParseInt(text) ==
  LET s == Strip(text)
  IN  IF Len(s) = 1 /\ s[1] \in Numerals THEN [ok |-> TRUE, n |-> NumOf(s[1])]
      ELSE IF Len(s) = 2 /\ s[1] = "-" /\ s[2] \in Numerals
           THEN [ok |-> TRUE, n |-> 0 - NumOf(s[2])]
      ELSE IF Len(s) = 2 /\ s[1] = "+" /\ s[2] \in Numerals
           THEN [ok |-> TRUE, n |-> NumOf(s[2])]
      ELSE [ok |-> FALSE, n |-> 0]

\* SettingsWidget.get_value
GetValue(w) ==
  LET AsInt(r) == IF r.ok THEN VInt(r.n) ELSE VInt(0)
      AsList(r) == IF r.ok /\ r.val.k = "list" THEN r.val ELSE VList(<<>>)
  IN  IF w.kind \in {"profiles", "strlist"} THEN VList(w.items)
      ELSE IF w.otype = "bool" THEN VBool(w.checked)
      ELSE IF w.otype = "int" THEN AsInt(ParseInt(w.text))
      ELSE IF w.otype = "list" THEN AsList(JsonLoads(w.text))
      ELSE IF w.kind = "combo" THEN VStr(w.text)
      ELSE IF w.otype = "str" THEN VStr(w.text)
      ELSE VStr(w.text)

\* One lexeme that stands for a JSON array nested deeper than the
\* interpreter's recursion limit; json.loads raises RecursionError on it.
DeepArray == "[[...]]"

\* Whether get_value raises: the json.loads of a list-kind QLineEdit meets an
\* error that is not a json.JSONDecodeError.
GetValueRaises(w) ==
  w.kind = "line" /\ w.otype = "list" /\ w.text = <<DeepArray>>

\* ------------------------------------------------------------------------
\* display_settings

\* The keys of the categories, in the order of the categories dictionary.
CategoryKeys ==
  << <<"minecraft_version">>, <<"host">>, <<"port">>, <<"auth">>,
     <<"host_mindserver">>, <<"mindserver_host">>, <<"mindserver_port">>,
     <<"base_profile">>, <<"profiles">>, <<"load_memory">>, <<"init_message">>,
     <<"only_chat_with">>, <<"speak">>, <<"language">>,
     <<"show_bot_views">>, <<"allow_insecure_coding">>, <<"allow_vision">>,
     <<"blocked_actions">>,
     <<"code_timeout_mins">>, <<"relevant_docs_count">>, <<"max_messages">>,
     <<"num_examples">>, <<"max_commands">>,
     <<"verbose_commands">>, <<"narrate_behavior">>, <<"chat_bot_messages">>,
     <<"log_all_prompts">> >>

\* Every key of the model, in the order of Python's str comparison
\* (by code point).
KeysByCodePoint ==
  << <<"25565">>, <<"a">>, <<"alpha">>, <<"auth">>, <<"b">>,
     <<"blocked_actions">>, <<"f">>, <<"host">>, <<"max_messages">>, <<"n">>, <<"only_chat_with">>,
     <<"port">>, <<"profiles">>, <<"speak">>, <<"x">>, <<"zeta">> >>

\* k1 < k2 for two keys.
KeyRank(k) == CHOOSE i \in 1 .. Len(KeysByCodePoint) : KeysByCodePoint[i] = k

KeyLess(k1, k2) == KeyRank(k1) < KeyRank(k2)

\* sorted(keys): the keys of set K in ascending order.
RECURSIVE SortedKeys(_)
SortedKeys(K) ==
  IF K = {} THEN <<>>
  ELSE LET m == CHOOSE k \in K : \A o \in K : o = k \/ KeyLess(k, o)
       IN  <<m>> \o SortedKeys(K \ {m})

\* The keys in the order display_settings creates their widgets: the keys of
\* the categories that are in settings, then the sorted other keys.
RECURSIVE KeepIn(_, _)
KeepIn(q, K) ==
  IF q = <<>> THEN <<>>
  ELSE (IF Head(q) \in K THEN <<Head(q)>> ELSE <<>>) \o KeepIn(Tail(q), K)

\* A faulty variant of DisplayOrder: only the keys of the categories.
DisplayOrderCategoriesOnly(d) == KeepIn(CategoryKeys, DictKeys(d))

DisplayOrder(d) ==
  LET inCat == KeepIn(CategoryKeys, DictKeys(d))
      other == {k \in DictKeys(d) : ~InSeq(k, CategoryKeys)}
  IN  inCat \o SortedKeys(other)

\* self.settings_widgets after display_settings.
DisplaySettings(d, cache) ==
  LET Widgets(order) ==
        [i \in 1 .. Len(order) |->
           [key |-> order[i],
            val |-> MakeWidget(order[i], DictGet(d, order[i]), cache)]]
  IN  Widgets(DisplayOrder(d))

\* ------------------------------------------------------------------------
\* save_settings

\* current_ui_settings: the value of every widget, in widget order.
CurrentUiSettings(widgets) ==
  [i \in 1 .. Len(widgets) |->
     [key |-> widgets[i].key, val |-> GetValue(widgets[i].val)]]

\* A faulty variant of EmitOrder: the order of the widgets.
EmitOrderAsDisplayed(ui) == DictKeySeq(ui)

\* The keys in the order save_settings emits them.
EmitOrder(ui) == SortedKeys(DictKeys(ui))

\* One entry of setting_entries.
SettingEntry(key, value) ==
  <<" ", " ", " ", " ", "\"">> \o key \o <<"\"", ":", " ">> \o JsonDumps(value)

\* ",\n".join(setting_entries) for the keys of order from i on.
RECURSIVE JoinEntries(_, _, _)
JoinEntries(ui, order, i) ==
  IF i > Len(order) THEN <<>>
  ELSE SettingEntry(order[i], DictGet(ui, order[i]))
       \o (IF i < Len(order) THEN <<",", "\n">> ELSE <<>>)
       \o JoinEntries(ui, order, i + 1)

\* A faulty variant of NewContent: the suffix follows the semicolon as it is.
NewContentPlainSuffix(ui, suffix) ==
  <<"const", " ", "settings", " ", "=", " ", "{", "\n">>
  \o JoinEntries(ui, EmitOrder(ui), 1) \o <<"\n", "}", ";">> \o suffix

\* A faulty variant of NewContent: a newline is put before every suffix.
NewContentNewlineAlways(ui, suffix) ==
  <<"const", " ", "settings", " ", "=", " ", "{", "\n">>
  \o JoinEntries(ui, EmitOrder(ui), 1) \o <<"\n", "}", ";", "\n">> \o suffix

\* new_content
NewContent(ui, suffix) ==
  LET eff == IF suffix # <<>> /\ ~StartsWith(suffix, {"\n"})
             THEN <<"\n">> \o suffix ELSE suffix
      Content(obj) ==
        <<"const", " ", "settings", " ", "=", " ">>
        \o (IF suffix = <<>> /\ ~EndsWith(obj, {"\n"})
            THEN obj \o <<"\n">> ELSE obj)
        \o <<";">> \o eff
  IN  Content(<<"{", "\n">> \o JoinEntries(ui, EmitOrder(ui), 1) \o <<"\n", "}">>)

\* ------------------------------------------------------------------------
\* The files

Paths == {"p1", "p2"}

\* settings_path is None.
NoPath == "none"

Q == "\""

Decl == <<"const", " ", "settings", " ", "=", " ">>

ExportTail == <<";", "\n", "export", " ", "default", " ", "settings", ";", "\n">>

\* {"zeta": 1, "alpha": "x", "speak": true}
FileStrict ==
  Decl \o <<"{", Q, "zeta", Q, ":", " ", "1", ",", " ",
            Q, "alpha", Q, ":", " ", Q, "x", Q, ",", " ",
            Q, "speak", Q, ":", " ", "true", "}">> \o ExportTail

\* {"n": null, "f": 1.5}
FileNullFloat ==
  Decl \o <<"{", Q, "n", Q, ":", " ", "null", ",", " ",
            Q, "f", Q, ":", " ", "1", ".", "5", "}">> \o ExportTail

\* A header comment, then { host: 'x', port: 15, } and no export line.
FileJsStyle ==
  <<"/", "/", " ", "hdr", "\n">> \o Decl
  \o <<"{", " ", "host", ":", " ", "'", "x", "'", ",", " ",
       "port", ":", " ", "15", ",", " ", "}", ";", "\n",
       "/", "/", " ", "end", "\n">>

\* { max_messages: 15 port: 25565 }
FileMissingComma ==
  Decl \o <<"{", " ", "max_messages", ":", " ", "15", " ",
            "port", ":", " ", "25565", " ", "}">>

\* { a: <U+00B2>, b: 1 }
FileSuperscript ==
  Decl \o <<"{", " ", "a", ":", " ", Sup2, ",", " ",
            "b", ":", " ", "1", " ", "}">> \o ExportTail

\* let x = 1;
FileNoBlock == <<"let", " ", "x", " ", "=", " ", "1", ";", "\n">>

\* { "profiles": ["a", // "b"
\*   ], "only_chat_with": ["x"], "auth": "mojang" }
FileProfiles ==
  Decl \o <<"{", " ", Q, "profiles", Q, ":", " ", "[", Q, "a", Q, ",", " ",
            "/", "/", " ", Q, "b", Q, "\n", "]", ",", " ",
            Q, "only_chat_with", Q, ":", " ", "[", Q, "x", Q, "]", ",", " ",
            Q, "auth", Q, ":", " ", Q, "mojang", Q, " ", "}">> \o ExportTail

\* {} with nothing after it
FileEmpty == Decl \o <<"{", "}">>

\* { profiles: ['./a.json', // './b.json'
\*   ], speak: true, port: 55916 }
FileUnquotedProfiles ==
  Decl \o <<"{", " ", "profiles", ":", " ", "[",
            "'", ".", "/", "a", ".", "json", "'", ",", " ",
            "/", "/", " ", "'", ".", "/", "b", ".", "json", "'", "\n",
            " ", "]", ",", " ", "speak", ":", " ", "true", ",", " ",
            "port", ":", " ", "55916", " ", "}">>

\* FileProfiles with the comma before "auth" missing.
FileProfilesCorrupt ==
  Decl \o <<"{", " ", Q, "profiles", Q, ":", " ", "[", Q, "a", Q, ",", " ",
            "/", "/", " ", Q, "b", Q, "\n", "]", ",", " ",
            Q, "only_chat_with", Q, ":", " ", "[", Q, "x", Q, "]", " ",
            Q, "auth", Q, ":", " ", Q, "mojang", Q, " ", "}">> \o ExportTail

\* { "profiles": ["./a.json", // ".\x.json"
\*   ] }
FileBackslash ==
  Decl \o <<"{", " ", Q, "profiles", Q, ":", " ", "[",
            Q, ".", "/", "a", ".", "json", Q, ",", " ",
            "/", "/", " ", Q, ".", "\\", "x", ".", "json", Q, "\n",
            " ", "]", " ", "}">>

\* { "profiles": ["a", //
\*   "b"
\*   ] }
FileEmptyComment ==
  Decl \o <<"{", " ", Q, "profiles", Q, ":", " ", "[", Q, "a", Q, ",", " ",
            "/", "/", "\n", " ", Q, "b", Q, "\n", " ", "]", " ", "}">>

\* { host: 'localhost', blocked_actions: ['!stop',], }
FileTrailingCommas ==
  Decl \o <<"{", " ", "host", ":", " ", "'", "localhost", "'", ",", " ",
            "blocked_actions", ":", " ", "[", "'", "!", "stop", "'", ",", "]",
            ",", " ", "}">>

\* { host: 'a, b: c' }
FileColonInString ==
  Decl \o <<"{", " ", "host", ":", " ",
            "'", "a", ",", " ", "b", ":", " ", "c", "'", " ", "}">>

\* { a: undefined }
FileBareUndefined == Decl \o <<"{", " ", "a", ":", " ", "undefined", " ", "}">>

\* { b: NaN }
FileBareNaN == Decl \o <<"{", " ", "b", ":", " ", "NaN", " ", "}">>

\* { f: Infinity }
FileBareInfinity == Decl \o <<"{", " ", "f", ":", " ", "Infinity", " ", "}">>

\* {"a": "undefined"}
FileUndefinedString ==
  Decl \o <<"{", Q, "a", Q, ":", " ", Q, "undefined", Q, "}">>

\* {}; and the export line in capitals
FileUpperExport ==
  Decl \o <<"{", "}", ";", "\n",
            "EXPORT", " ", "DEFAULT", " ", "SETTINGS", ";", "\n">>

\* { "profiles": [" "] }
FileBlankProfile ==
  Decl \o <<"{", " ", Q, "profiles", Q, ":", " ", "[", Q, " ", Q, "]", " ", "}">>

\* { "profiles": ["a", "a"] }
FileTwiceProfile ==
  Decl \o <<"{", " ", Q, "profiles", Q, ":", " ", "[", Q, "a", Q, ",", " ",
            Q, "a", Q, "]", " ", "}">>

FirstFiles ==
  {FileStrict, FileNullFloat, FileJsStyle, FileMissingComma, FileSuperscript,
   FileNoBlock, FileProfiles, FileEmpty, FileUnquotedProfiles,
   FileProfilesCorrupt, FileBackslash, FileEmptyComment, FileTrailingCommas,
   FileColonInString, FileBareUndefined, FileBareNaN, FileBareInfinity,
   FileUndefinedString, FileUpperExport, FileBlankProfile, FileTwiceProfile}

SecondFiles == {FileNoBlock}

\* What the user may type into a line edit.
EditTexts == {<<"7">>, <<"x">>, <<"[", Q, "x", Q, "]">>}

\* ------------------------------------------------------------------------
\* The editor

VARIABLES
  disk,             \* the content of each file
  exists,           \* whether each path is a file (Path.is_file())
  settings_path,    \* self.settings_path
  settings,         \* self.settings
  settings_widgets, \* self.settings_widgets
  file_suffix,      \* self.file_suffix
  cache,            \* MindcraftSettingsEditor.SETTINGS_PROFILES_FROM_COMMENTS_CACHE
  path_input,       \* the text of self.path_input
  reload_enabled,   \* self.reload_button.isEnabled()
  save_enabled,     \* self.save_button.isEnabled()
  outcome,          \* the branch the last handler took
  read_text,        \* content, as read by the last load that read a file
  written_keys,     \* the keys of setting_entries of the last save, in order
  edits,            \* widget edits so far
  saves,            \* saves so far
  last_cache,       \* the cache as it was before the last load that read a file
  removed           \* the names removed from the profiles widget since it was built

vars == <<disk, exists, settings_path, settings, settings_widgets, file_suffix,
          cache, path_input, reload_enabled, save_enabled, outcome, read_text,
          written_keys, edits, saves, last_cache, removed>>

\* MindcraftSettingsEditor.__init__ and init_ui
Init ==
  /\ disk \in {[p \in Paths |-> IF p = "p1" THEN f1 ELSE f2] :
                 f1 \in FirstFiles, f2 \in SecondFiles}
  /\ exists = [p \in Paths |-> TRUE]
  /\ settings_path = NoPath
  /\ settings = <<>>
  /\ settings_widgets = <<>>
  /\ file_suffix = <<>>
  /\ cache = <<>>
  /\ path_input = NoPath
  /\ reload_enabled = FALSE
  /\ save_enabled = FALSE
  /\ outcome = "init"
  /\ read_text = <<>>
  /\ written_keys = <<>>
  /\ edits = 0
  /\ saves = 0
  /\ last_cache = <<>>
  /\ removed = {}

\* The outcome of a load that read content.
LoadOutcome(r) ==
  IF ~r.block THEN "no_block"
  ELSE IF r.raised THEN "exception"
  ELSE IF r.strict THEN "strict" ELSE "fallback"

\* The assignments of load_settings_file(p) once the file is read: r is
\* what the try block computed, mined the cache of commented profiles.
LoadResult(p, newDisk, r, mined) ==
  LET ok == r.block /\ ~r.raised
  IN  /\ cache' = mined
      /\ file_suffix' = IF r.block THEN r.suffix ELSE file_suffix
      /\ settings' = IF ok THEN r.settings ELSE <<>>
      /\ settings_path' = IF ok THEN p ELSE NoPath
      /\ path_input' = IF ok THEN p ELSE NoPath
      /\ settings_widgets' =
           IF ok THEN DisplaySettings(r.settings, mined) ELSE <<>>
      /\ reload_enabled' = ok
      /\ save_enabled' = ok
      /\ outcome' = LoadOutcome(r)
      /\ read_text' = disk[p]
      /\ disk' = newDisk
      /\ last_cache' = cache
      /\ removed' = {}
      /\ UNCHANGED <<exists, written_keys, edits, saves>>

\* A faulty variant of LoadEffect: the cache is replaced only when the text
\* holds a profiles array.
LoadEffectKeepCache(p, newDisk) ==
  IF ~exists[p]
  THEN /\ outcome' = "not_a_file"
       /\ UNCHANGED <<disk, exists, settings_path, settings, settings_widgets,
                      file_suffix, cache, path_input, reload_enabled,
                      save_enabled, read_text, written_keys, edits, saves,
                      last_cache, removed>>
  ELSE LoadResult(p, newDisk, ReadSettings(disk[p]),
                  IF ProfilesArrayMatch(disk[p]).found
                  THEN MineCommentedProfiles(disk[p]) ELSE cache)

\* A faulty variant of LoadEffect: a path that is not a file unloads the
\* document, as a text without a settings block does.
LoadEffectUnloadsOnMissing(p, newDisk) ==
  IF ~exists[p]
  THEN /\ outcome' = "not_a_file"
       /\ settings' = <<>>
       /\ settings_path' = NoPath
       /\ path_input' = NoPath
       /\ settings_widgets' = <<>>
       /\ reload_enabled' = FALSE
       /\ save_enabled' = FALSE
       /\ removed' = {}
       /\ UNCHANGED <<disk, exists, file_suffix, cache, read_text,
                      written_keys, edits, saves, last_cache>>
  ELSE LoadResult(p, newDisk, ReadSettings(disk[p]),
                  MineCommentedProfiles(disk[p]))

\* load_settings_file(p), leaving the files as newDisk.
LoadEffect(p, newDisk) ==
  IF ~exists[p]
  THEN /\ outcome' = "not_a_file"
       /\ disk' = disk
       /\ UNCHANGED <<exists, settings_path, settings, settings_widgets,
                      file_suffix, cache, path_input, reload_enabled,
                      save_enabled, read_text, written_keys, edits, saves,
                      last_cache, removed>>
  ELSE LoadResult(p, newDisk, ReadSettings(disk[p]),
                  MineCommentedProfiles(disk[p]))

\* A faulty variant of LoadSettingsFile: the load writes the stripped text
\* back to the file.
LoadAndRewrite(p) == LoadEffect(p, [disk EXCEPT ![p] = Strip(disk[p])])

\* load_settings_file(p)
LoadSettingsFile(p) == LoadEffect(p, disk)

\* browse_settings_file: the dialog returns any path, or is cancelled.
BrowseSettingsFile ==
  \/ \E p \in Paths : LoadSettingsFile(p)
  \/ UNCHANGED vars

\* scan_for_mindcraft: loads a settings.js it found, if any.
ScanForMindcraft ==
  IF \E p \in Paths : exists[p]
  THEN \E p \in Paths : exists[p] /\ LoadSettingsFile(p)
  ELSE UNCHANGED vars

\* A faulty variant of ReloadSettings: the branch of the missing file leaves
\* the buttons as they are.
ReloadKeepsButtons ==
  IF settings_path # NoPath /\ exists[settings_path]
  THEN LoadSettingsFile(settings_path)
  ELSE IF settings_path # NoPath
  THEN /\ path_input' = NoPath
       /\ settings' = <<>>
       /\ settings_path' = NoPath
       /\ settings_widgets' = <<>>
       /\ outcome' = "reload_missing"
       /\ removed' = {}
       /\ UNCHANGED <<disk, exists, file_suffix, cache, read_text,
                      written_keys, edits, saves, last_cache, reload_enabled,
                      save_enabled>>
  ELSE UNCHANGED vars

\* reload_settings
ReloadSettings ==
  IF settings_path # NoPath /\ exists[settings_path]
  THEN LoadSettingsFile(settings_path)
  ELSE IF settings_path # NoPath
  THEN /\ path_input' = NoPath
       /\ settings' = <<>>
       /\ settings_path' = NoPath
       /\ settings_widgets' = <<>>
       /\ reload_enabled' = FALSE
       /\ save_enabled' = FALSE
       /\ outcome' = "reload_missing"
       /\ removed' = {}
       /\ UNCHANGED <<disk, exists, file_suffix, cache, read_text,
                      written_keys, edits, saves, last_cache>>
  ELSE UNCHANGED vars

\* The assignments of save_settings when write_text succeeds; ui is
\* current_ui_settings.
WriteSettings(ui) ==
  /\ saves < MaxSaves
  /\ disk' = [disk EXCEPT ![settings_path] = NewContent(ui, file_suffix)]
  /\ exists' = [exists EXCEPT ![settings_path] = TRUE]
  /\ settings' = ui
  /\ written_keys' = EmitOrder(ui)
  /\ saves' = saves + 1
  /\ outcome' = "saved"
  /\ UNCHANGED <<settings_path, settings_widgets, file_suffix, cache,
                 path_input, reload_enabled, save_enabled, read_text, edits,
                 last_cache, removed>>

\* A faulty variant of WriteFails: self.settings is assigned before the
\* write.
WriteFailsAfterAssign(ui) ==
  /\ saves < MaxSaves
  /\ \/ disk' = disk
     \/ disk' = [disk EXCEPT ![settings_path] = <<>>]
  /\ settings' = ui
  /\ outcome' = "save_failed"
  /\ UNCHANGED <<exists, settings_path, settings_widgets, file_suffix,
                 cache, path_input, reload_enabled, save_enabled, read_text,
                 written_keys, edits, saves, last_cache, removed>>

\* save_settings when write_text raises: the file is as it was (it could
\* not be opened for writing) or empty (the open truncated it and the write
\* failed); the except branch assigns nothing.
WriteFails(ui) ==
  /\ saves < MaxSaves
  /\ \/ disk' = disk
     \/ disk' = [disk EXCEPT ![settings_path] = <<>>]
  /\ outcome' = "save_failed"
  /\ UNCHANGED <<exists, settings_path, settings, settings_widgets,
                 file_suffix, cache, path_input, reload_enabled, save_enabled,
                 read_text, written_keys, edits, saves, last_cache, removed>>

\* save_settings when a get_value raises: the return of line 1242.
SaveAborted ==
  /\ saves < MaxSaves
  /\ outcome' = "save_aborted"
  /\ UNCHANGED <<disk, exists, settings_path, settings, settings_widgets,
                 file_suffix, cache, path_input, reload_enabled, save_enabled,
                 read_text, written_keys, edits, saves, last_cache, removed>>

\* save_settings
SaveSettings ==
  IF settings_path = NoPath
  THEN UNCHANGED vars
  ELSE IF \E i \in 1 .. Len(settings_widgets) :
            GetValueRaises(settings_widgets[i].val)
  THEN SaveAborted
  ELSE \/ WriteSettings(CurrentUiSettings(settings_widgets))
       \/ WriteFails(CurrentUiSettings(settings_widgets))

\* One widget of settings_widgets replaced.
WithWidget(i, w) ==
  [settings_widgets EXCEPT ![i] = [key |-> settings_widgets[i].key, val |-> w]]

\* What an edit of a widget leaves alone.
EditFrame ==
  /\ edits < MaxEdits
  /\ edits' = edits + 1
  /\ outcome' = "edited"
  /\ UNCHANGED <<disk, exists, settings_path, settings, file_suffix, cache,
                 path_input, reload_enabled, save_enabled, read_text,
                 written_keys, saves, last_cache>>

\* The user types text into the QLineEdit of widget i.
EditLineText(i, text) ==
  /\ settings_widgets[i].val.kind = "line"
  /\ settings_widgets[i].val.text # text
  /\ settings_widgets' = WithWidget(i, [settings_widgets[i].val EXCEPT !.text = text])
  /\ removed' = removed
  /\ EditFrame

\* The user puts a deeply nested array into the QLineEdit of the list-kind
\* widget i.
EditDeepArray(i) ==
  /\ settings_widgets[i].val.otype = "list"
  /\ EditLineText(i, <<DeepArray>>)

\* The user toggles the QCheckBox of widget i.
ToggleCheckBox(i) ==
  /\ settings_widgets[i].val.kind = "check"
  /\ settings_widgets' =
       WithWidget(i, [settings_widgets[i].val EXCEPT !.checked = ~@])
  /\ removed' = removed
  /\ EditFrame

\* The user selects item opt in the QComboBox of widget i.
SelectComboItem(i, opt) ==
  /\ settings_widgets[i].val.kind = "combo"
  /\ settings_widgets[i].val.text # <<opt>>
  /\ settings_widgets' = WithWidget(i, [settings_widgets[i].val EXCEPT !.text = <<opt>>])
  /\ removed' = removed
  /\ EditFrame

\* ------------------------------------------------------------------------
\* ProfilesManagerWidget

\* The profile names of the model in ascending order of str.
NamesByCodePoint ==
  << <<>>, <<" ">>, <<".", "/", "a", ".", "json">>,
     <<".", "/", "b", ".", "json">>, <<".", "/", "x", ".", "json">>,
     <<".", "\\", "x", ".", "json">>, <<"a">>, <<"b">>, <<"c">> >>

NameRank(n) == CHOOSE i \in 1 .. Len(NamesByCodePoint) : NamesByCodePoint[i] = n

\* sorted(names): the names of set S in ascending order.
RECURSIVE SortedNames(_)
SortedNames(S) ==
  IF S = {} THEN <<>>
  ELSE LET m == CHOOSE n \in S : \A o \in S : NameRank(n) <= NameRank(o)
       IN  <<m>> \o SortedNames(S \ {m})

\* list.sort() of a list of names.
RECURSIVE SortNameList(_)
SortNameList(q) ==
  IF q = <<>> THEN <<>>
  ELSE LET m == CHOOSE i \in 1 .. Len(q) :
                  \A j \in 1 .. Len(q) : NameRank(q[i]) <= NameRank(q[j])
       IN  <<q[m]>> \o SortNameList([j \in 1 .. (Len(q) - 1) |->
                                       IF j < m THEN q[j] ELSE q[j + 1]])

\* list.remove(x): q without the first occurrence of x.
ListRemove(q, x) ==
  LET m == MinOf({i \in 1 .. Len(q) : q[i] = x})
  IN  [j \in 1 .. (Len(q) - 1) |-> IF j < m THEN q[j] ELSE q[j + 1]]

\* current_profiles of the profiles widget w as names.
CurrentProfiles(w) == [i \in 1 .. Len(w.items) |-> w.items[i].t]

\* unique_available_for_adding: the candidates the Add dialog of the
\* profiles widget w offers.
UniqueAvailableForAdding(w) ==
  SortedNames(({w.avail[i] : i \in 1 .. Len(w.avail)}
                 \cup {cache[i] : i \in 1 .. Len(cache)})
                \ {w.items[i].t : i \in 1 .. Len(w.items)})

\* A faulty variant of RemoveProfileWidget: the removed name is not kept in
\* available_profiles_from_comments.
RemoveProfileForgets(w, name) ==
  IF VStr(name) \in {w.items[i] : i \in 1 .. Len(w.items)}
  THEN [w EXCEPT !.items = ListRemove(w.items, VStr(name))]
  ELSE w

\* The profiles widget after remove_profile of the item with text name.
RemoveProfileWidget(w, name) ==
  IF VStr(name) \in {w.items[i] : i \in 1 .. Len(w.items)}
  THEN [w EXCEPT
          !.items = ListRemove(w.items, VStr(name)),
          !.avail = IF /\ name \notin {w.avail[i] : i \in 1 .. Len(w.avail)}
                       /\ name \notin {cache[i] : i \in 1 .. Len(cache)}
                    THEN SortNameList(Append(w.avail, name))
                    ELSE w.avail]
  ELSE w

\* The user double-clicks item k of the list of the profiles widget i:
\* remove_profile.
RemoveProfile(i, k) ==
  /\ settings_widgets[i].val.kind = "profiles"
  /\ k \in 1 .. Len(settings_widgets[i].val.items)
  /\ settings_widgets' =
       WithWidget(i, RemoveProfileWidget(settings_widgets[i].val,
                                         settings_widgets[i].val.items[k].t))
  /\ removed' = removed \cup {settings_widgets[i].val.items[k].t}
  /\ EditFrame

\* A faulty variant of AddProfileWidget: a name that is active is added
\* again.
AddProfileAgain(w, text) ==
  IF Strip(text) # <<>>
  THEN [w EXCEPT
          !.items = Append(w.items, VStr(Strip(text))),
          !.avail = IF Strip(text) \in {w.avail[i] : i \in 1 .. Len(w.avail)}
                    THEN ListRemove(w.avail, Strip(text))
                    ELSE w.avail]
  ELSE w

\* The profiles widget after the Add dialog was accepted with text in its
\* combo box.
AddProfileWidget(w, text) ==
  IF /\ Strip(text) # <<>>
     /\ VStr(Strip(text)) \notin {w.items[i] : i \in 1 .. Len(w.items)}
  THEN [w EXCEPT
          !.items = Append(w.items, VStr(Strip(text))),
          !.avail = IF Strip(text) \in {w.avail[i] : i \in 1 .. Len(w.avail)}
                    THEN ListRemove(w.avail, Strip(text))
                    ELSE w.avail]
  ELSE w

\* The texts the user types into the combo box of the Add dialog.
TypedNames == {<<" ", "c", " ">>, <<" ">>}

\* The texts the combo box of the Add dialog can hold.
ProfileTexts ==
  TypedNames \cup {NamesByCodePoint[i] : i \in 1 .. Len(NamesByCodePoint)}

\* show_add_profile_dialog of the profiles widget i, accepted with text
\* (typed, or one of the offered candidates, or the name of an active
\* profile) or cancelled.
ShowAddProfileDialog(i, text) ==
  /\ settings_widgets[i].val.kind = "profiles"
  /\ \/ /\ \/ text \in TypedNames
           \/ \E j \in 1 .. Len(UniqueAvailableForAdding(settings_widgets[i].val)) :
                text = UniqueAvailableForAdding(settings_widgets[i].val)[j]
           \/ \E j \in 1 .. Len(settings_widgets[i].val.items) :
                text = settings_widgets[i].val.items[j].t
        /\ settings_widgets' =
             WithWidget(i, AddProfileWidget(settings_widgets[i].val, text))
        /\ removed' = removed
        /\ EditFrame
     \/ UNCHANGED vars

\* The loaded file is deleted outside the editor.
DeleteFile(p) ==
  /\ p = settings_path
  /\ exists[p]
  /\ exists' = [exists EXCEPT ![p] = FALSE]
  /\ outcome' = "file_deleted"
  /\ UNCHANGED <<disk, settings_path, settings, settings_widgets, file_suffix,
                 cache, path_input, reload_enabled, save_enabled, read_text,
                 written_keys, edits, saves, last_cache, removed>>

Next ==
  \/ BrowseSettingsFile
  \/ ScanForMindcraft
  \/ ReloadSettings
  \/ SaveSettings
  \/ \E i \in 1 .. Len(settings_widgets), text \in EditTexts : EditLineText(i, text)
  \/ \E i \in 1 .. Len(settings_widgets) : EditDeepArray(i)
  \/ \E i \in 1 .. Len(settings_widgets) : ToggleCheckBox(i)
  \/ \E i \in 1 .. Len(settings_widgets), opt \in {"offline", "microsoft"} :
       SelectComboItem(i, opt)
  \/ \E i \in 1 .. Len(settings_widgets) :
       \E k \in 1 .. Len(settings_widgets[i].val.items) : RemoveProfile(i, k)
  \/ \E i \in 1 .. Len(settings_widgets), text \in ProfileTexts :
       ShowAddProfileDialog(i, text)
  \/ \E p \in Paths : DeleteFile(p)

Spec == Init /\ [][Next]_vars

\* ------------------------------------------------------------------------
\* Properties

\* The outcomes of a load that read the file.
LoadOutcomes == {"strict", "fallback", "exception", "no_block"}

\* The state is the one a successful load left.
Loaded == outcome \in {"strict", "fallback"}

\* Same key set and the same value for every key.
SameDocument(d1, d2) ==
  /\ DictKeys(d1) = DictKeys(d2)
  /\ \A k \in DictKeys(d1) : DictGet(d1, k) = DictGet(d2, k)

\* Same key set and the same kind of value for every key.
SameKinds(d1, d2) ==
  /\ DictKeys(d1) = DictKeys(d2)
  /\ \A k \in DictKeys(d1) : DictGet(d1, k).k = DictGet(d2, k).k

\* The text a save would write from the widgets as they are.
SavedText == NewContent(CurrentUiSettings(settings_widgets), file_suffix)

\* The settings block of text c, as located by the load.
BlockOf(c) == SubSeq(c, SettingsMatch(c).open, SettingsMatch(c).close)

\* Index of the first occurrence of p in t (0 when there is none).
FindText(t, p) ==
  LET Pos(S) == IF S = {} THEN 0 ELSE MinOf(S)
  IN  Pos({i \in 1 .. (Len(t) - Len(p) + 1) : SubSeq(t, i, i + Len(p) - 1) = p})

\* Where the entry of key k starts in text t (0 when it has none).
EntryPos(t, k) ==
  FindText(t, <<"\n", " ", " ", " ", " ", "\"">> \o k \o <<"\"", ":", " ">>)

\* q is in strictly ascending order.
Ascending(q) == \A i, j \in 1 .. Len(q) : i < j => KeyLess(q[i], q[j])

SeqSet(q) == {q[i] : i \in 1 .. Len(q)}

\* C1: right after a successful load (strict or fallback), saving without
\* edits and loading the saved text gives a document with the same keys and
\* the same value for every key as the loaded one.
C1_RoundTrip ==
  Loaded =>
    LET Same(r) == r.block /\ ~r.raised /\ SameDocument(r.settings, settings)
    IN  Same(ReadSettings(SavedText))

\* C2: right after a successful load, every key has after save and load a
\* value of the kind it had in the loaded document.
C2_KindStable ==
  Loaded => SameKinds(ReadSettings(SavedText).settings, settings)

\* C3: whenever the strict decode of the located block fails, the fallback
\* parser returns a mapping and raises nothing.
C3_FallbackNeverRaises ==
  (SettingsMatch(read_text).found /\ ~JsonLoadsObject(Normalize(BlockOf(read_text))).ok)
    => ~FallbackParse(BlockOf(read_text)).raised

\* C4: a load of a text in which the settings block is located ends with a
\* document loaded: settings_path set, Save and Reload enabled.
C4_BlockAlwaysLoads ==
  (outcome \in LoadOutcomes /\ SettingsMatch(read_text).found)
    => (settings_path # NoPath /\ save_enabled /\ reload_enabled)

\* C5: after a save, the text before the const settings declaration and the
\* text after the closing brace of the object literal are the same in the
\* saved file as in the text that was loaded.
C5_OutsidePreserved ==
  outcome = "saved" =>
    LET Same(old, new, mo, mn) ==
          /\ mn.found
          /\ SubSeq(new, 1, mn.start - 1) = SubSeq(old, 1, mo.start - 1)
          /\ Drop(new, mn.close) = Drop(old, mo.close)
    IN  Same(read_text, disk[settings_path],
             SettingsMatch(read_text), SettingsMatch(disk[settings_path]))

CapturedSuffix(c) ==
  LET Complete(s) ==
        IF Contains(LowerText(s), ExportPhrase) THEN s
        ELSE IF s = <<>> THEN ExportLine
        ELSE <<"\n">> \o s \o ExportLine
  IN  Complete(Strip(Drop(c, SettingsMatch(c).end - 1)))

C7_OnlySaveWrites ==
  [][disk' # disk => (settings_path # NoPath /\ SaveSettings)]_vars

\* C7 witness: a save has changed the file that was loaded, after loads,
\* edits and a failed load of the other file.
C7_Witness ==
  /\ outcome = "saved"
  /\ disk[settings_path] # read_text
  /\ edits > 0

\* C8: while a document is loaded, the widgets hold exactly the keys of the
\* loaded document, one widget each, and a save writes exactly those keys,
\* one entry each.
C8_KeysPreserved ==
  settings_path # NoPath =>
    LET Keys(loaded) ==
          /\ SeqSet(DictKeySeq(settings_widgets)) = DictKeys(loaded)
          /\ Len(settings_widgets) = Cardinality(DictKeys(loaded))
          /\ outcome = "saved" =>
               /\ SeqSet(written_keys) = DictKeys(loaded)
               /\ Len(written_keys) = Cardinality(DictKeys(loaded))
               /\ \A k \in DictKeys(loaded) :
                    EntryPos(disk[settings_path], k) > 0
    IN  Keys(ReadSettings(read_text).settings)

\* C8 witness: a save after an edit of a document that has a key of a
\* category and a key of none.
C8_Witness ==
  /\ outcome = "saved"
  /\ edits > 0
  /\ \E k \in SeqSet(written_keys) : InSeq(k, CategoryKeys)
  /\ \E k \in SeqSet(written_keys) : ~InSeq(k, CategoryKeys)

\* C9: a load that locates no settings block ends with no document, the
\* path field cleared and Save and Reload disabled, and a load that read the
\* file ends without a document in no other case.
C9_NoBlockOnlyFailure ==
  /\ outcome = "no_block" =>
       /\ settings = <<>> /\ settings_widgets = <<>>
       /\ settings_path = NoPath /\ path_input = NoPath
       /\ ~save_enabled /\ ~reload_enabled
  /\ (outcome \in LoadOutcomes /\ settings_path = NoPath)
       => ~SettingsMatch(read_text).found

\* C10: a save writes the entries in ascending order of their keys.
C10_KeysAscending ==
  outcome = "saved" =>
    /\ Ascending(written_keys)
    /\ \A k1, k2 \in DictKeys(settings) :
         KeyLess(k1, k2) =>
           /\ EntryPos(disk[settings_path], k1) > 0
           /\ EntryPos(disk[settings_path], k1) < EntryPos(disk[settings_path], k2)

\* C10 witness: a save of a document whose keys were in another order both
\* in the loaded text and in the widgets, with alpha written before zeta.
C10_Witness ==
  /\ outcome = "saved"
  /\ written_keys # DictKeySeq(settings_widgets)
  /\ written_keys # DictKeySeq(ReadSettings(read_text).settings)
  /\ \E i, j \in 1 .. Len(written_keys) :
       i < j /\ written_keys[i] = <<"alpha">> /\ written_keys[j] = <<"zeta">>

\* The entries "<key>": <JSON value> of document d for the keys of ks from
\* i on, each indented by 4 spaces, separated by a comma and a newline.
RECURSIVE EntriesText(_, _, _)
EntriesText(d, ks, i) ==
  IF i > Len(ks) THEN <<>>
  ELSE <<" ", " ", " ", " ", "\"">> \o ks[i] \o <<"\"", ":", " ">>
       \o JsonDumps(DictGet(d, ks[i]))
       \o (IF i < Len(ks) THEN <<",", "\n">> \o EntriesText(d, ks, i + 1)
           ELSE <<>>)

\* const settings = <object literal>; for document d written in key order ks.
DeclarationText(d, ks) ==
  <<"const", " ", "settings", " ", "=", " ", "{", "\n">>
  \o EntriesText(d, ks, 1) \o <<"\n", "}", ";">>

\* C11 as stated: the saved text is the declaration of the object literal,
\* a semicolon, and the suffix.
C11_TextAsStated ==
  outcome = "saved" =>
    disk[settings_path] = DeclarationText(settings, written_keys) \o file_suffix

\* C11 (amended): the saved text is the declaration of the object literal,
\* a semicolon, a newline unless the suffix begins with one, and the suffix
\* (which is never empty).
C11_SavedText ==
  outcome = "saved" =>
    /\ file_suffix # <<>>
    /\ disk[settings_path] =
         DeclarationText(settings, written_keys)
         \o (IF StartsWith(file_suffix, {"\n"}) THEN <<>> ELSE <<"\n">>)
         \o file_suffix

\* C11 witness: a save, after an edit, of two entries or more with a suffix
\* that does not begin with a newline.
C11_Witness ==
  /\ outcome = "saved"
  /\ edits > 0
  /\ Len(written_keys) >= 2
  /\ ~StartsWith(file_suffix, {"\n"})

\* C12: after the load of the file with the unquoted profiles key, the
\* document is {profiles: ["./a.json"], speak: true, port: 55916} and the
\* cache of commented profiles is ["./b.json"].
C12_UnquotedProfilesMined ==
  (outcome \in LoadOutcomes /\ read_text = FileUnquotedProfiles) =>
    /\ SameDocument(settings,
         << [key |-> <<"profiles">>,
             val |-> VList(<<VStr(<<".", "/", "a", ".", "json">>)>>)],
            [key |-> <<"speak">>, val |-> VBool(TRUE)],
            [key |-> <<"port">>, val |-> VInt(55916)] >>)
    /\ cache = << <<".", "/", "b", ".", "json">> >>

\* The texts of the model that hold the same profiles array as text c.
SameProfilesArray(c) ==
  {o \in FirstFiles :
     /\ ProfilesArrayMatch(o).found
     /\ ProfilesArrayMatch(c).found
     /\ ProfilesArrayMatch(o).body = ProfilesArrayMatch(c).body}

\* C13: the cache of commented profiles a load leaves is the one the load
\* of any text with the same profiles array leaves, whichever way the
\* settings block of either text decodes.
C13_MiningIgnoresDecodePath ==
  outcome \in LoadOutcomes =>
    \A o \in SameProfilesArray(read_text) : cache = MineCommentedProfiles(o)

\* C13 witness: a load that took the fallback path left a non-empty cache,
\* and a text with the same profiles array decodes strictly.
C13_Witness ==
  /\ outcome = "fallback"
  /\ cache # <<>>
  /\ \E o \in SameProfilesArray(read_text) : ReadSettings(o).strict

\* C14: a load that reads a text with no profiles array leaves the cache of
\* commented profiles empty, whatever the cache held before.
C14_NoProfilesNoSuggestions ==
  (outcome \in LoadOutcomes /\ ~ProfilesArrayMatch(read_text).found)
    => cache = <<>>

\* C14 witness: the cache was not empty before the load of a text with no
\* profiles array.
C14_Witness ==
  /\ outcome \in LoadOutcomes
  /\ ~ProfilesArrayMatch(read_text).found
  /\ last_cache # <<>>
  /\ cache = <<>>

\* C15: every name in the suggestion set is free of backslashes, and the
\* commented name .\x.json of a loaded file is collected as ./x.json.
C15_BackslashesNormalized ==
  outcome \in LoadOutcomes =>
    /\ \A i \in 1 .. Len(cache) :
         \A j \in 1 .. Len(cache[i]) : cache[i][j] # "\\"
    /\ read_text = FileBackslash =>
         cache = << <<".", "/", "x", ".", "json">> >>

\* The positions of the text g where a quoted name equal to n (once
\* normalized) starts inside a line comment: a // before it, the opening
\* quote, the name and the closing quote all on one line.
LineCommentPositions(g, n) ==
  {q \in 1 .. Len(g) :
     \E i \in 1 .. q - 1 : \E r \in q + 2 .. Len(g) :
       /\ i + 1 < q /\ g[i] = "/" /\ g[i + 1] = "/"
       /\ g[q] \in {Q, "'"} /\ g[r] \in {Q, "'"}
       /\ \A k \in i .. r : g[k] # "\n"
       /\ \A k \in q + 1 .. r - 1 : g[k] \notin {Q, "'"}
       /\ NormalizeCommentedProfile(SubSeq(g, q + 1, r - 1)) = n}

\* The three parts of C16 for the cache c mined from the array body g.
MinedAsStated(c, g) ==
  /\ \A i, j \in 1 .. Len(c) : i < j => c[i] # c[j]
  /\ \A i \in 1 .. Len(c) : LineCommentPositions(g, c[i]) # {}
  /\ \A i, j \in 1 .. Len(c) :
       i < j => MinOf(LineCommentPositions(g, c[i]))
                  < MinOf(LineCommentPositions(g, c[j]))

\* C16: the suggestion set holds each mined name once, in the order of its
\* first occurrence, and every name in it is written in a line comment
\* inside the bracket-bounded span of the profiles array.
C16_MinedFromLineComments ==
  outcome \in LoadOutcomes =>
    MinedAsStated(cache, ProfilesArrayMatch(read_text).body)

\* C17: after the load of { max_messages: 15 port: 25565 } the strict
\* decode has failed and the fallback has produced the document
\* {max_messages: 15, port: 25565}, both values integers.
C17_MissingCommaRecovered ==
  (outcome \in LoadOutcomes /\ read_text = FileMissingComma) =>
    /\ outcome = "fallback"
    /\ SameDocument(settings,
         << [key |-> <<"max_messages">>, val |-> VInt(15)],
            [key |-> <<"port">>, val |-> VInt(25565)] >>)

\* C18: the two object literals written with unquoted keys, single-quoted
\* strings and trailing commas, and with no quote, comment marker or brace
\* inside a string, decode through the strict path to the mapping of their
\* strict-JSON spelling.
C18_JsStyleDecodesStrictly ==
  outcome \in LoadOutcomes =>
    /\ read_text = FileTrailingCommas =>
         /\ outcome = "strict"
         /\ SameDocument(settings,
              << [key |-> <<"host">>, val |-> VStr(<<"localhost">>)],
                 [key |-> <<"blocked_actions">>,
                  val |-> VList(<<VStr(<<"!", "stop">>)>>)] >>)
    /\ read_text = FileColonInString =>
         /\ outcome = "strict"
         /\ SameDocument(settings,
              << [key |-> <<"host">>,
                  val |-> VStr(<<"a", ",", " ", "b", ":", " ", "c">>)] >>)

\* C19: a bare undefined loads as null, a bare NaN as the string "NaN" and
\* a bare Infinity as the string "Infinity" without an exception, and the
\* word undefined written as a quoted string value loads as that string.
C19_OnlyBareTokensReplaced ==
  outcome \in LoadOutcomes =>
    /\ read_text = FileBareUndefined =>
         /\ Loaded
         /\ SameDocument(settings, << [key |-> <<"a">>, val |-> VNull] >>)
    /\ read_text = FileBareNaN =>
         /\ Loaded
         /\ SameDocument(settings,
              << [key |-> <<"b">>, val |-> VStr(<<"NaN">>)] >>)
    /\ read_text = FileBareInfinity =>
         /\ Loaded
         /\ SameDocument(settings,
              << [key |-> <<"f">>, val |-> VStr(<<"Infinity">>)] >>)
    /\ read_text = FileUndefinedString =>
         /\ Loaded
         /\ SameDocument(settings,
              << [key |-> <<"a">>, val |-> VStr(<<"undefined">>)] >>)

\* The value C20 states for the widget w whose load-time kind is
\* w.otype, v being the value the save has emitted for its key.
EmittedAsLoaded(w, v) ==
  /\ v.k = w.otype
  /\ (w.otype = "int" /\ ~ParseInt(w.text).ok) => v = VInt(0)
  /\ (w.otype = "list" /\ w.kind = "line"
        /\ ~(JsonLoads(w.text).ok /\ JsonLoads(w.text).val.k = "list"))
       => v = VList(<<>>)

\* C20: right after a save, whatever text the edit boxes hold, every key
\* has been written with a value of its load-time kind: 0 for an
\* integer-kind key whose text is not an integer, [] for a list-kind key
\* whose text is not a JSON array.
C20_SaveKeepsLoadTimeKind ==
  outcome = "saved" =>
    \A i \in 1 .. Len(settings_widgets) :
      /\ settings_widgets[i].key \in DictKeys(settings)
      /\ EmittedAsLoaded(settings_widgets[i].val,
                         DictGet(settings, settings_widgets[i].key))

\* Whether v is the value C21 states for the trimmed value span raw.
ClassifiedAsStated(raw, v) ==
  LET low == LowerText(raw)
      Dec(dec, other) == IF dec.ok THEN v = dec.val ELSE v = other
  IN  IF low = <<"true">> THEN v = VBool(TRUE)
      ELSE IF low = <<"false">> THEN v = VBool(FALSE)
      ELSE IF low \in {<<"null">>, <<"undefined">>} THEN v = VNull
      ELSE IF \/ StartsWith(raw, {Q}) /\ EndsWith(raw, {Q})
              \/ StartsWith(raw, {"'"}) /\ EndsWith(raw, {"'"})
           THEN /\ v.k = "str"
                /\ Dec(JsonLoads(ReplaceQuotes(raw)),
                       VStr(SubSeq(raw, 2, Len(raw) - 1)))
      ELSE IF StartsWith(raw, {"["}) /\ EndsWith(raw, {"]"})
           THEN /\ v.k = "list"
                /\ Dec(JsonLoads(ReplaceQuotes(raw)), VList(<<>>))
      ELSE IF IsDigitText(raw)
                \/ (StartsWith(raw, {"-"}) /\ IsDigitText(Tail(raw)))
           THEN v.k = "int"
      ELSE v = VStr(raw)

\* The text the fallback scans for the loaded text c.
FallbackText(c) == StripBlockComments(StripLineComments(BlockOf(c)))

\* Every key match of the scanned text fb that no later match overwrites
\* has in d the value stated for its span.
SpansClassified(fb, ms, d) ==
  \A i \in 1 .. Len(ms) :
    (\A j \in i + 1 .. Len(ms) : ms[j].key # ms[i].key) =>
      /\ ms[i].key \in DictKeys(d)
      /\ ClassifiedAsStated(
           ValueStrRaw(fb, ms[i].end,
                       IF i < Len(ms) THEN ms[i + 1].start ELSE Len(fb) + 1),
           DictGet(d, ms[i].key))

\* C21: whenever the strict decode of the located block fails, the load
\* ends with the fallback's mapping, in which every value is the stated
\* classification of its trimmed span (boolean, null, string, list, integer,
\* raw string, in that order).
C21_FallbackClassifies ==
  (/\ outcome \in LoadOutcomes
   /\ SettingsMatch(read_text).found
   /\ ~JsonLoadsObject(Normalize(BlockOf(read_text))).ok) =>
    /\ outcome = "fallback"
    /\ SpansClassified(FallbackText(read_text),
                       KeyMatches(FallbackText(read_text), 1), settings)

\* The text of the saved file after the ; that ends the object literal
\* (the text itself when the file does not start with the literal).
AfterLiteral(t, d, ks) ==
  IF Len(t) >= Len(DeclarationText(d, ks))
       /\ SubSeq(t, 1, Len(DeclarationText(d, ks))) = DeclarationText(d, ks)
  THEN Drop(t, Len(DeclarationText(d, ks)))
  ELSE t

\* C22: right after a save the ; that ends the object literal is followed
\* by a newline: by the suffix as it is when the suffix starts with a
\* newline, by a newline and the suffix otherwise; for the same values and an
\* empty suffix the text written is the literal, a newline and the ;.
C22_SuffixReattached ==
  outcome = "saved" =>
    /\ file_suffix # <<>>
    /\ Head(AfterLiteral(disk[settings_path], settings, written_keys)) = "\n"
    /\ AfterLiteral(disk[settings_path], settings, written_keys)
         = IF StartsWith(file_suffix, {"\n"}) THEN file_suffix
           ELSE <<"\n">> \o file_suffix
    /\ NewContent(settings, <<>>)
         = <<"const", " ", "settings", " ", "=", " ", "{", "\n">>
           \o EntriesText(settings, written_keys, 1)
           \o <<"\n", "}", "\n", ";">>

\* C22 witness: the second save of a non-empty document whose suffix starts
\* with a newline.
C22_Witness ==
  /\ outcome = "saved"
  /\ StartsWith(file_suffix, {"\n"})
  /\ settings # <<>>
  /\ saves = 2

\* The number of occurrences of "export default settings" in text t,
\* letter case ignored.
ExportCount(t) ==
  Cardinality({i \in 1 .. (Len(t) - Len(ExportPhrase) + 1) :
                 \A k \in 1 .. Len(ExportPhrase) :
                   Lower(t[i + k - 1]) = ExportPhrase[k]})

\* content[end_of_settings_block:] of text c.
TailOf(c) == Drop(c, SettingsMatch(c).end - 1)

\* C23: while a document is loaded the suffix holds the export line once
\* when the text after the object literal had none and as often as that
\* text otherwise; no step raises the number of export lines in a file
\* except a save from none to one, and a save into a file that has none
\* leaves exactly one.
C23_ExportOnce ==
  /\ [](settings_path # NoPath =>
          ExportCount(file_suffix)
            = IF ExportCount(TailOf(read_text)) = 0 THEN 1
              ELSE ExportCount(TailOf(read_text)))
  /\ [][\A p \in Paths :
          disk'[p] # disk[p] =>
            /\ ExportCount(disk'[p]) > ExportCount(disk[p]) =>
                 (ExportCount(disk[p]) = 0 /\ ExportCount(disk'[p]) = 1)
            /\ (outcome' = "saved" /\ p = settings_path
                  /\ ExportCount(disk[p]) = 0) =>
                 ExportCount(disk'[p]) = 1]_vars

\* C23 witness: the second save of the file that had a closing comment and
\* no export line, after a reload of the first save; the file holds one
\* export line.
C23_Witness ==
  /\ outcome = "saved"
  /\ saves = 2
  /\ Contains(read_text, <<"end", "\n", "export">>)
  /\ ExportCount(disk[settings_path]) = 1

\* The text a save writes right after a load of text c, no widget touched
\* (c itself when the load of c fails).
SavedAfterLoad(c) ==
  LET Again(r) ==
        IF r.block /\ ~r.raised
        THEN NewContent(
               CurrentUiSettings(
                 DisplaySettings(r.settings, MineCommentedProfiles(c))),
               r.suffix)
        ELSE <<>>
  IN  Again(ReadSettings(c))

\* C24: right after a save, a reload of the saved file followed by a save
\* with no edit writes the text the file already holds.
C24_SaveReloadFixedPoint ==
  outcome = "saved" =>
    SavedAfterLoad(disk[settings_path]) = disk[settings_path]

\* C25: in every reachable state the Save button and the Reload button are
\* enabled exactly when settings_path is set.
C25_ButtonsFollowPath ==
  /\ save_enabled <=> settings_path # NoPath
  /\ reload_enabled <=> settings_path # NoPath

\* C25 witness: a reload of a deleted file after a load and a save of it;
\* the path is unset and the buttons are disabled.
C25_Witness ==
  /\ outcome = "reload_missing"
  /\ saves > 0
  /\ settings_path = NoPath
  /\ ~save_enabled
  /\ ~reload_enabled

\* C26: a step of save_settings leaves settings_path and file_suffix as they
\* are; when a get_value raises it leaves the files and the in-memory
\* settings as they are; when the write raises it leaves the in-memory
\* settings as they are; and when it replaces the in-memory settings the file
\* holds the text made of the new settings.
C26_SaveAssignsAfterWrite ==
  [][(settings_path # NoPath /\ SaveSettings) =>
       /\ settings_path' = settings_path
       /\ file_suffix' = file_suffix
       /\ outcome' = "save_aborted" => (disk' = disk /\ settings' = settings)
       /\ outcome' = "save_failed" => settings' = settings
       /\ settings' # settings =>
            /\ outcome' = "saved"
            /\ disk'[settings_path] = NewContent(settings', file_suffix)]_vars

\* C26 witness: the write of a save has failed after an edit; the widgets
\* hold values that differ from the in-memory settings.
C26_Witness ==
  /\ outcome = "save_failed"
  /\ edits > 0
  /\ settings # CurrentUiSettings(settings_widgets)

\* C27: a call of load_settings_file with a path that is not a file leaves
\* settings, settings_path, file_suffix, the cache of commented profiles,
\* the widgets, the path field, the two buttons and the files as they were.
C27_MissingPathChangesNothing ==
  [][outcome' = "not_a_file" =>
       UNCHANGED <<settings, settings_path, file_suffix, cache,
                   settings_widgets, path_input, reload_enabled,
                   save_enabled, disk, exists>>]_vars

\* C27 witness: a load of a path that is not a file, with a document
\* loaded and edited; the document is still loaded and Save is enabled.
C27_Witness ==
  /\ outcome = "not_a_file"
  /\ settings_path # NoPath
  /\ settings # <<>>
  /\ edits > 0
  /\ save_enabled

\* C28: after a load that took the fallback, the keys of the document are the
\* keys written in the object literal of the loaded text, and the string
\* 'a, b: c' of key host is loaded whole.
C28_FallbackKeysFromSource ==
  outcome = "fallback" =>
    /\ read_text = FileMissingComma =>
         DictKeys(settings) = {<<"max_messages">>, <<"port">>}
    /\ read_text = FileProfilesCorrupt =>
         DictKeys(settings)
           = {<<"profiles">>, <<"only_chat_with">>, <<"auth">>}
    /\ read_text = FileColonInString =>
         /\ DictKeys(settings) = {<<"host">>}
         /\ DictGet(settings, <<"host">>)
              = VStr(<<"a", ",", " ", "b", ":", " ", "c">>)

\* The profiles widgets of the form.
ProfilesWidgets ==
  {w \in {settings_widgets[i].val : i \in 1 .. Len(settings_widgets)} :
     w.kind = "profiles"}

\* C29: every name that was removed from the active list of the profiles
\* widget and is not active now is a candidate of the Add dialog, being in
\* available_profiles_from_comments or in the cache of commented profiles,
\* and no candidate of the Add dialog is active.
C29_RemovedIsOffered ==
  \A w \in ProfilesWidgets :
    /\ \A n \in removed :
         n \notin SeqSet(CurrentProfiles(w)) =>
           /\ n \in SeqSet(UniqueAvailableForAdding(w))
           /\ n \in SeqSet(w.avail) \cup SeqSet(cache)
    /\ \A n \in SeqSet(UniqueAvailableForAdding(w)) :
         n \notin SeqSet(CurrentProfiles(w))

\* C29 happens: a name that is not in the cache of commented profiles was
\* removed, is not active and is a candidate now, while a name of the cache
\* is active.
C29_Witness ==
  \E w \in ProfilesWidgets :
    /\ \E n \in SeqSet(cache) : n \in SeqSet(CurrentProfiles(w))
    /\ \E n \in removed :
         /\ n \notin SeqSet(cache)
         /\ n \notin SeqSet(CurrentProfiles(w))
         /\ n \in SeqSet(UniqueAvailableForAdding(w))

\* The names of the profiles list the profiles widget was built from: the
\* list of the document the last load decoded.
LoadedProfiles ==
  LET Names(r) ==
        IF r.block /\ ~r.raised /\ <<"profiles">> \in DictKeys(r.settings)
        THEN [i \in 1 .. Len(DictGet(r.settings, <<"profiles">>).l) |->
                DictGet(r.settings, <<"profiles">>).l[i].t]
        ELSE <<>>
  IN  Names(ReadSettings(read_text))

NoDuplicates(q) == \A i, j \in 1 .. Len(q) : i < j => q[i] # q[j]

NoBlankName(q) == \A i \in 1 .. Len(q) : Strip(q[i]) # <<>>

\* The active list of the profiles widget w is as C30 states: no duplicates,
\* no empty or whitespace-only name, an Add dialog accepted with the name of
\* an active profile changes nothing, and get_value returns the active list.
ActiveListAsStated(w) ==
  /\ NoDuplicates(CurrentProfiles(w))
  /\ NoBlankName(CurrentProfiles(w))
  /\ \A text \in ProfileTexts :
       Strip(text) \in SeqSet(CurrentProfiles(w)) => AddProfileWidget(w, text) = w
  /\ GetValue(w) = VList(w.items)

\* The active list keeps the order of insertion over the edit of widget i:
\* the list is as it was, or it lost one item, or it got at its end a name
\* that was not active.
InsertionOrderKept(i) ==
  LET old == settings_widgets[i].val.items
      new == settings_widgets'[i].val.items
  IN  \/ new = old
      \/ \E k \in 1 .. Len(old) :
           new = [j \in 1 .. (Len(old) - 1) |-> IF j < k THEN old[j] ELSE old[j + 1]]
      \/ /\ Len(new) = Len(old) + 1
         /\ SubSeq(new, 1, Len(old)) = old
         /\ new[Len(new)] \notin SeqSet(old)

\* The edits keep the insertion order, and a save stores the active list as
\* the value of the key of the profiles widget.
ActiveListSaved ==
  \A i \in 1 .. Len(settings_widgets) :
    settings_widgets[i].val.kind = "profiles" =>
      /\ outcome' = "edited" => InsertionOrderKept(i)
      /\ outcome' = "saved" =>
           DictGet(settings', settings_widgets[i].key)
             = VList(settings_widgets[i].val.items)

\* C30 as stated: if the loaded profiles list has no duplicates, the active
\* list has no duplicates and no empty or whitespace-only name after any
\* adds and removes, adding an active name changes nothing, and the list
\* returned to save is the active list in insertion order.
C30_ActiveListAsStated ==
  /\ [](\A w \in ProfilesWidgets :
          ActiveListAsStated(w) \/ ~NoDuplicates(LoadedProfiles))
  /\ [][ActiveListSaved]_vars

\* C30, amended: the same for a loaded profiles list that has neither
\* duplicates nor an empty or whitespace-only name.
C30_ActiveListClean ==
  /\ [](\A w \in ProfilesWidgets :
          \/ ActiveListAsStated(w)
          \/ ~(NoDuplicates(LoadedProfiles) /\ NoBlankName(LoadedProfiles)))
  /\ [][ActiveListSaved]_vars

\* C30 happens: after an add and a remove the active list of a loaded list
\* of two names holds two names, the added one last, and a save stored it.
C30_Witness ==
  /\ outcome = "saved"
  /\ edits = 2
  /\ \E w \in ProfilesWidgets :
       /\ Len(LoadedProfiles) = 2
       /\ NoDuplicates(LoadedProfiles) /\ NoBlankName(LoadedProfiles)
       /\ Len(w.items) = 2
       /\ w.items[1].t = LoadedProfiles[2]
       /\ w.items[2].t \notin SeqSet(LoadedProfiles)
       /\ DictGet(settings, <<"profiles">>) = VList(w.items)

====
